---- MODULE Spec2Model ----
(***************************************************************************)
(* Model of the image-curation pipeline of dogcomplex/image_data_processing *)
(*                                                                         *)
(*   pipeline_config.py  get_folder_hash, PipelineConfig.get_hash,         *)
(*                       make_stage_folder   (fingerprint, key, cache)     *)
(*   resizer.py          batch_resize_images (a stage transform that       *)
(*                       writes into the directory it is handed)           *)
(*   main.py             process_images, process_images_zoom_face          *)
(*                                                                         *)
(* Strings are Python strings, a path is the sequence of its components,   *)
(* json.dumps is modelled by the text it produces, and SHA-256 truncated   *)
(* to 8 hex characters is modelled as an injective function of that text   *)
(* (digest collisions are outside the model).                              *)
(***************************************************************************)
EXTENDS Integers, Sequences, FiniteSets, TLC

VARIABLES
    fs,      \* the file system: path -> node, for every path that exists
    w,       \* one record per caller of make_stage_folder (its position and locals)
    made,    \* history: candidate directory -> how its files were last made: the input's
             \* (name, size) set, the stage and config, whether the transform finished,
             \* and whether the input was then as when the directory was keyed
    env,     \* number of changes made to the input directory from outside
    calls,   \* number of calls of make_stage_folder made so far
    run,     \* the pipeline run of main.py (its position, arguments and trace)
    args,    \* inputs of the pure functions (fingerprint, key derivation)
    out      \* their results

vars == <<fs, w, made, env, calls, run, args, out>>

None == [t |-> "none", v |-> 0]

\* the pure functions have not been applied
NoArgs == [kind |-> "none"]
NoOut == [kind |-> "none"]

(***************************************************************************)
(* Paths (pathlib.Path) and directory entries                              *)
(***************************************************************************)
Root == <<>>

\* Path.parent: the parent of the root is the root
Parent(p) == IF p = <<>> THEN <<>> ELSE SubSeq(p, 1, Len(p) - 1)

\* Path.__truediv__
Join(p, name) == Append(p, name)

\* Path.name
BaseName(p) == IF p = <<>> THEN "" ELSE p[Len(p)]

\* path q is directory d or lies below it
Under(q, d) == Len(q) >= Len(d) /\ SubSeq(q, 1, Len(d)) = d

\* Code-point order of the names that occur in the model (what sorted() and
\* sort_keys=True compare by)
StrOrder ==
    << "a.jpg", "b.jpg", "c.png", "data", "debug", "face_tolerance", "file_pattern",
       "group_001", "in", "input_hash", "jpeg_quality", "min_cluster_size",
       "prefix_separator", "processed", "stage", "sub", "target_size", "zoom_factor" >>

StrRank(s) == CHOOSE i \in 1..Len(StrOrder) : StrOrder[i] = s

StrLt(s, t) == StrRank(s) < StrRank(t)

\* All enumerations (sequences without repetition) of a finite set
Enumerations(S) ==
    { q \in [1..Cardinality(S) -> S] : \A i, j \in 1..Cardinality(S) : q[i] = q[j] => i = j }

\* Insert x into s, which is sorted by name, before the first element of larger name
RECURSIVE InsertSorted(_, _)
InsertSorted(x, s) ==
    IF s = <<>> THEN <<x>>
    ELSE IF StrLt(x.name, Head(s).name) THEN <<x>> \o s
    ELSE <<Head(s)>> \o InsertSorted(x, Tail(s))

\* sorted(): a sequence of records ordered by their name (names are distinct)
RECURSIVE Sorted(_)
Sorted(s) ==
    IF s = <<>> THEN <<>> ELSE InsertSorted(Head(s), Sorted(Tail(s)))

RECURSIVE JoinStr(_, _)
JoinStr(s, sep) ==
    IF s = <<>> THEN ""
    ELSE IF Len(s) = 1 THEN s[1]
    ELSE s[1] \o sep \o JoinStr(Tail(s), sep)

\* hashlib.sha256(text.encode()).hexdigest()[:8]
hexdigest8(text) == "sha256(" \o text \o ")"

(***************************************************************************)
(* get_folder_hash                                                         *)
(***************************************************************************)
\* (mutant) the entries in the order iterdir yields them
SortedEntries_Unsorted(listing) == listing

\* sorted(folder_path.iterdir()): entries of one directory compare by name
SortedEntries(listing) == Sorted(listing)

\* (mutant) the sizes are left out of the content list
ContentList_NamesOnly(listing) ==
    LET srt == SortedEntries(listing)
        files == SelectSeq(srt, LAMBDA e : e.kind = "file")
    IN  [i \in 1..Len(files) |-> <<files[i].name, 0>>]

\* (mutant) every entry is listed, directories too
ContentList_AllEntries(listing) ==
    LET srt == SortedEntries(listing)
    IN  [i \in 1..Len(srt) |-> <<srt[i].name, srt[i].size>>]

\* the loop of lines 13-16: keep regular files, as (name, size)
ContentList(listing) ==
    LET srt == SortedEntries(listing)
        files == SelectSeq(srt, LAMBDA e : e.kind = "file")
    IN  [i \in 1..Len(files) |-> <<files[i].name, files[i].size>>]

\* json.dumps(content_list, sort_keys=True): a list of [name, size] lists
ContentStr(content_list) ==
    "[" \o JoinStr([i \in 1..Len(content_list) |->
                       "[" \o ToString(content_list[i][1]) \o ", "
                           \o ToString(content_list[i][2]) \o "]"], ", ") \o "]"

get_folder_hash(listing) == hexdigest8(ContentStr(ContentList(listing)))

\* The (name, size) pairs of the regular files of a listing
NameSizeSet(listing) ==
    { <<listing[i].name, listing[i].size>> :
        i \in { j \in 1..Len(listing) : listing[j].kind = "file" } }

(***************************************************************************)
(* PipelineConfig and the stage key                                        *)
(***************************************************************************)
\* The dataclass fields, in declaration order
Fields ==
    << "target_size", "file_pattern", "prefix_separator", "jpeg_quality",
       "zoom_factor", "face_tolerance", "min_cluster_size" >>

IntV(n) == [t |-> "int", v |-> n]
StrV(s) == [t |-> "str", v |-> s]
\* a float with one decimal, kept in tenths: 2.5 is FloatV(25)
FloatV(tenths) == [t |-> "float", v |-> tenths]

DefaultConfig ==
    [ target_size |-> IntV(512), file_pattern |-> StrV("*.jpg"),
      prefix_separator |-> StrV("_"), jpeg_quality |-> IntV(95),
      zoom_factor |-> FloatV(25), face_tolerance |-> FloatV(6),
      min_cluster_size |-> IntV(3) ]

\* json.dumps of one value: an int, the repr of a float, a quoted string
JsonValue(x) ==
    CASE x.t = "int"   -> ToString(x.v)
      [] x.t = "float" -> ToString(x.v \div 10) \o "." \o ToString(x.v % 10)
      [] x.t = "str"   -> ToString(x.v)
      [] OTHER         -> "null"

\* (mutant) the last declared field is left out of the dict
asdict_WithoutLast(config, decl) ==
    [i \in 1..(Len(decl) - 1) |-> [name |-> decl[i], value |-> config[decl[i]]]]

\* dataclasses.asdict: the fields in declaration order (a dict keeps insertion order)
asdict(config, decl) == [i \in 1..Len(decl) |-> [name |-> decl[i], value |-> config[decl[i]]]]

\* {k: v for k, v in asdict(config).items() if v is not None}
WithoutNone(d) == SelectSeq(d, LAMBDA kv : kv.value # None)

\* d[key] = value: replaces in place, or appends
DictSet(d, key, value) ==
    IF \E i \in 1..Len(d) : d[i].name = key
    THEN [i \in 1..Len(d) |-> IF d[i].name = key THEN [name |-> key, value |-> value] ELSE d[i]]
    ELSE Append(d, [name |-> key, value |-> value])

\* (mutant) json.dumps without sort_keys: the items in insertion order
SortedItems_InsertionOrder(d) == d

\* the order json.dumps(..., sort_keys=True) writes the items in
SortedItems(d) == Sorted(d)

\* json.dumps(config_dict, sort_keys=True)
JsonDumps(d) ==
    LET items == SortedItems(d)
    IN  "{" \o JoinStr([i \in 1..Len(items) |->
                           ToString(items[i].name) \o ": " \o JsonValue(items[i].value)],
                       ", ") \o "}"

\* (mutant) the configuration is left out of the dict that is hashed
KeyDict_NoConfig(stage_name, config, decl, input_hash) ==
    DictSet(DictSet(<<>>, "stage", StrV(stage_name)), "input_hash", StrV(input_hash))

\* make_stage_folder, lines 70-72: the dict that is hashed
KeyDict(stage_name, config, decl, input_hash) ==
    DictSet(DictSet(WithoutNone(asdict(config, decl)), "stage", StrV(stage_name)),
            "input_hash", StrV(input_hash))

\* (mutant) the input fingerprint is left out of the string that is hashed
folder_hash_WithoutInput(stage_name, config, decl, input_hash) ==
    hexdigest8(JsonDumps(DictSet(WithoutNone(asdict(config, decl)), "stage", StrV(stage_name))))

\* make_stage_folder, lines 75-76
folder_hash(stage_name, config, decl, input_hash) ==
    hexdigest8(JsonDumps(KeyDict(stage_name, config, decl, input_hash)))

\* make_stage_folder, line 77
folder_name(stage_name, key_hash) == stage_name \o "_" \o key_hash

\* (mutant) processed/ is created inside base_path
processed_path_InsideBase(base_path) == Join(base_path, "processed")

\* make_stage_folder, line 62
processed_path(base_path) == Join(Parent(base_path), "processed")

\* make_stage_folder, line 78
folder_path(base_path, stage_name, config, decl, input_hash) ==
    Join(processed_path(base_path),
         folder_name(stage_name, folder_hash(stage_name, config, decl, input_hash)))

\* (mutant) the fields that are None stay in the dict
get_hash_KeepsNone(config, decl, stage_name, input_listing) ==
    hexdigest8(JsonDumps(
        DictSet(DictSet(asdict(config, decl), "stage", StrV(stage_name)),
                "input_hash", StrV(get_folder_hash(input_listing)))))

\* PipelineConfig.get_hash, lines 43-54 (input_listing is what iterdir yields for input_path)
get_hash(config, decl, stage_name, input_listing) ==
    hexdigest8(JsonDumps(
        DictSet(DictSet(WithoutNone(asdict(config, decl)), "stage", StrV(stage_name)),
                "input_hash", StrV(get_folder_hash(input_listing)))))

(***************************************************************************)
(* The file system                                                         *)
(***************************************************************************)
DirNode == [kind |-> "dir", size |-> 0, mtime |-> 0, content |-> ""]

FileNode(size, mtime, content) ==
    [kind |-> "file", size |-> size, mtime |-> mtime, content |-> content]

\* Path.exists, Path.is_dir
Exists(f, p) == p \in DOMAIN f
IsDir(f, p) == p \in DOMAIN f /\ f[p].kind = "dir"

\* the paths directly inside directory p
Children(f, p) == { q \in DOMAIN f : Len(q) = Len(p) + 1 /\ Parent(q) = p }

EntryOf(f, q) ==
    [name |-> BaseName(q), kind |-> f[q].kind, size |-> f[q].size,
     mtime |-> f[q].mtime, content |-> f[q].content]

\* Path.iterdir: the entries of p, in an order the caller does not control
IterDir(f, p) == { [i \in 1..Len(q) |-> EntryOf(f, q[i])] : q \in Enumerations(Children(f, p)) }

\* f with path p set to node n
WithNode(f, p, n) == [q \in DOMAIN f \cup {p} |-> IF q = p THEN n ELSE f[q]]

\* (mutant) the directory is recreated: what was in it is gone
Mkdir_Recreate(f, p) ==
    [q \in { r \in DOMAIN f : ~(Len(r) > Len(p) /\ SubSeq(r, 1, Len(p)) = p) } \cup {p} |->
        IF q = p THEN DirNode ELSE f[q]]

\* Path.mkdir(exist_ok=True) where the parent exists: a directory that is there is kept
Mkdir(f, p) == IF IsDir(f, p) THEN f ELSE WithNode(f, p, DirNode)

\* The directory layout the runs work on
DataDir == <<"data">>
InputDir == <<"data", "in">>
MissingDir == <<"data", "gone">>

FileNames == {"a.jpg", "b.jpg"}
Sizes == {100, 200}
Contents == {"x", "y"}

FsInit ==
    [p \in {Root, DataDir, InputDir, Join(InputDir, "a.jpg")} |->
        IF p = Join(InputDir, "a.jpg") THEN FileNode(100, 1, "x") ELSE DirNode]

(***************************************************************************)
(* make_stage_folder, and a caller that fills the directory it returns     *)
(***************************************************************************)
Procs == {"p1", "p2"}
MaxCalls == 2
MaxEnv == 2

StageNames == {"resize"}

\* the configurations the callers pass
CallConfigs == {DefaultConfig, [DefaultConfig EXCEPT !.jpeg_quality = IntV(80)]}

WIdle ==
    [pc |-> "idle", stage_name |-> "", config |-> DefaultConfig,
     input_folder |-> Root, input_hash |-> "", folder_path |-> Root, reused |-> FALSE]

\* the argument input_path=None (no real path has an empty component)
NoPath == <<"", "None">>

\* make_stage_folder, line 66: a Path is always true, so only None falls back to base_path
input_folder_of(base_path, input_path) == IF input_path = NoPath THEN base_path ELSE input_path

\* (mutant) the candidate is not looked into: an empty folder counts as cached
CacheHit_ExistsOnly(f, candidate, input_hash, current_hash) ==
    /\ Exists(f, candidate)
    /\ current_hash = input_hash

\* make_stage_folder, lines 81-84: the condition under which line 86 returns the cached folder
CacheHit(f, candidate, input_hash, current_hash) ==
    /\ Exists(f, candidate)
    /\ Children(f, candidate) # {}
    /\ current_hash = input_hash

\* make_stage_folder, lines 62-78: create processed/, fingerprint the input, derive the folder.
\* get_folder_hash raises (FileNotFoundError) when the input folder does not exist; the
\* processed directory has been created by then.
MakeStageFolder_Key(p, stage_name, config, base_path, input_path) ==
    /\ w[p].pc = "idle"
    /\ calls < MaxCalls
    /\ calls' = calls + 1
    /\ LET input_folder == input_folder_of(base_path, input_path)
           f1 == Mkdir(fs, processed_path(base_path))
       IN  /\ fs' = f1
           /\ IF ~IsDir(f1, input_folder)
              THEN w' = [w EXCEPT ![p] = [WIdle EXCEPT !.pc = "raised"]]
              ELSE \E listing \in IterDir(f1, input_folder) :
                     LET input_hash == get_folder_hash(listing)
                     IN  w' = [w EXCEPT ![p] =
                                 [pc |-> "keyed",
                                  stage_name |-> stage_name, config |-> config,
                                  input_folder |-> input_folder, input_hash |-> input_hash,
                                  folder_path |-> folder_path(base_path, stage_name, config,
                                                              Fields, input_hash),
                                  reused |-> FALSE]]
    /\ UNCHANGED <<made, env, run, args, out>>

\* make_stage_folder, lines 80-92: reuse the candidate, or create it
MakeStageFolder_Decide(p) ==
    /\ w[p].pc = "keyed"
    /\ \E listing \in IterDir(fs, w[p].input_folder) :
         LET current_hash == get_folder_hash(listing)
             hit == CacheHit(fs, w[p].folder_path, w[p].input_hash, current_hash)
         IN  /\ w' = [w EXCEPT ![p].pc = "returned", ![p].reused = hit]
             /\ fs' = IF hit THEN fs ELSE Mkdir(fs, w[p].folder_path)
    /\ UNCHANGED <<made, env, calls, run, args, out>>

\* the size of the file the image encoder writes for a source file (an abstraction of
\* PIL's resize and save, which the model does not look into)
EncodedSize(size) == size \div 2

\* resizer.batch_resize_images(input_folder, output_path): every image file of the input
\* is written, under its own name, into output_path; what is already there stays
batch_resize_images(f, input_folder, output_path) ==
    LET f1 == Mkdir(f, output_path)
        srcs == { q \in Children(f1, input_folder) : f1[q].kind = "file" }
        outs == { Join(output_path, BaseName(q)) : q \in srcs }
    IN  [q \in DOMAIN f1 \cup outs |->
            IF q \in outs
            THEN FileNode(EncodedSize(f1[Join(input_folder, BaseName(q))].size), 1,
                          f1[Join(input_folder, BaseName(q))].content)
            ELSE f1[q]]

\* the (name, size) pairs of the regular files directly in directory p
NameSizeOf(f, p) ==
    { <<BaseName(q), f[q].size>> : q \in { c \in Children(f, p) : f[c].kind = "file" } }

\* the history entry of a population of p's folder
Population(p, complete) ==
    [input |-> NameSizeOf(fs, w[p].input_folder), complete |-> complete,
     stage_name |-> w[p].stage_name, config |-> w[p].config,
     as_keyed |-> (w[p].input_hash =
                      get_folder_hash(CHOOSE l \in IterDir(fs, w[p].input_folder) : TRUE))]

\* The caller runs the stage transform on the folder make_stage_folder returned
RunTransform(p) ==
    /\ w[p].pc = "returned"
    /\ IsDir(fs, w[p].input_folder)
    /\ fs' = batch_resize_images(fs, w[p].input_folder, w[p].folder_path)
    /\ made' = [d \in DOMAIN made \cup {w[p].folder_path} |->
                   IF d = w[p].folder_path THEN Population(p, TRUE) ELSE made[d]]
    /\ w' = [w EXCEPT ![p] = WIdle]
    /\ UNCHANGED <<env, calls, run, args, out>>

\* batch_resize_images stopped in its loop (lines 51-53) after the files named in kept
\* were written: resize_image catches Exception, an interrupt or a kill it does not
batch_resize_images_partial(f, input_folder, output_path, kept) ==
    LET f1 == Mkdir(f, output_path)
        outs == { Join(output_path, name) : name \in kept }
    IN  [q \in DOMAIN f1 \cup outs |->
            IF q \in outs
            THEN FileNode(EncodedSize(f1[Join(input_folder, BaseName(q))].size), 1,
                          f1[Join(input_folder, BaseName(q))].content)
            ELSE f1[q]]

\* The transform is aborted part-way: some, not all, of its outputs are written, and the
\* caller's run ends with the exception
AbortTransform(p) ==
    /\ w[p].pc = "returned"
    /\ IsDir(fs, w[p].input_folder)
    /\ LET names == { BaseName(q) : q \in { c \in Children(fs, w[p].input_folder) :
                                               fs[c].kind = "file" } }
       IN  \E kept \in SUBSET names :
             /\ kept # {}
             /\ kept # names
             /\ fs' = batch_resize_images_partial(fs, w[p].input_folder, w[p].folder_path, kept)
    /\ made' = [d \in DOMAIN made \cup {w[p].folder_path} |->
                   IF d = w[p].folder_path THEN Population(p, FALSE) ELSE made[d]]
    /\ w' = [w EXCEPT ![p] = WIdle]
    /\ UNCHANGED <<env, calls, run, args, out>>

\* The caller uses the returned folder as it is
SkipTransform(p) ==
    /\ w[p].pc \in {"returned", "raised"}
    /\ w' = [w EXCEPT ![p] = WIdle]
    /\ UNCHANGED <<fs, made, env, calls, run, args, out>>

(***************************************************************************)
(* Changes to the input directory from outside the program                 *)
(***************************************************************************)
AddFile(name, size) ==
    /\ env < MaxEnv
    /\ ~Exists(fs, Join(InputDir, name))
    /\ fs' = WithNode(fs, Join(InputDir, name), FileNode(size, 1, "x"))
    /\ env' = env + 1
    /\ UNCHANGED <<w, made, calls, run, args, out>>

RemoveFile(name) ==
    /\ env < MaxEnv
    /\ Exists(fs, Join(InputDir, name))
    /\ fs' = [q \in DOMAIN fs \ {Join(InputDir, name)} |-> fs[q]]
    /\ env' = env + 1
    /\ UNCHANGED <<w, made, calls, run, args, out>>

\* rewrite a file with another size
ResizeFile(name, size) ==
    /\ env < MaxEnv
    /\ Exists(fs, Join(InputDir, name))
    /\ size # fs[Join(InputDir, name)].size
    /\ fs' = WithNode(fs, Join(InputDir, name), FileNode(size, 1, "x"))
    /\ env' = env + 1
    /\ UNCHANGED <<w, made, calls, run, args, out>>

EnvChange ==
    \/ \E name \in FileNames, size \in Sizes : AddFile(name, size)
    \/ \E name \in FileNames : RemoveFile(name)
    \/ \E name \in FileNames, size \in Sizes : ResizeFile(name, size)

(***************************************************************************)
(* main.py: process_images and process_images_zoom_face                    *)
(***************************************************************************)
MaxRuns == 2

\* The parameters of the callees, in order, and how many of them have no default
Signatures ==
    [ select_best_images        |-> [params |-> <<"input_dir", "output_path", "config">>, required |-> 2],
      batch_resize_images       |-> [params |-> <<"input_folder", "output_path", "target_size",
                                                  "quality", "extensions">>, required |-> 2],
      face_crop_process_folder  |-> [params |-> <<"input_folder", "output_folder", "target_size",
                                                  "debug">>, required |-> 1],
      filter_single_face_images |-> [params |-> <<"input_folder", "output_folder">>, required |-> 1],
      zoom_process_folder       |-> [params |-> <<"input_folder", "output_folder", "zoom_factor">>,
                                     required |-> 1],
      filter_by_resolution      |-> [params |-> <<"input_folder", "min_size", "output_folder">>,
                                     required |-> 2],
      identify_process_folder   |-> [params |-> <<"input_folder", "output_folder", "tolerance",
                                                  "min_cluster_size">>, required |-> 1] ]

\* One call of a stage transform as main.py writes it: the callee, the kinds of the
\* positional arguments, the keywords, the directory read and the folder written
Site(stage, callee, positional, keywords, reads, writes) ==
    [stage |-> stage, callee |-> callee, positional |-> positional, keywords |-> keywords,
     reads |-> reads, writes |-> writes]

\* (mutant) process_images with its first two steps exchanged
DefaultChain_ResizeFirst ==
    << Site("resize", "batch_resize_images", <<"Path">>,
            {"target_size", "quality", "extensions", "output_folder"}, "selected", "resized"),
       Site("select", "select_best_images", <<"str", "ImageSelectionConfig">>, {},
            "", "selected"),
       Site("face_crop", "face_crop_process_folder", <<"Path">>,
            {"output_folder", "target_size"}, "resized", "face_cropped"),
       Site("single_face", "filter_single_face_images", <<"Path">>, {"output_folder"},
            "face_cropped", "single_face"),
       Site("identify", "identify_process_folder", <<"Path">>, {"output_folder"},
            "single_face", "identified") >>

\* process_images, lines 41-109
DefaultChain ==
    << Site("select", "select_best_images", <<"str", "ImageSelectionConfig">>, {},
            "", "selected"),
       Site("resize", "batch_resize_images", <<"Path">>,
            {"target_size", "quality", "extensions", "output_folder"}, "selected", "resized"),
       Site("face_crop", "face_crop_process_folder", <<"Path">>,
            {"output_folder", "target_size"}, "resized", "face_cropped"),
       Site("single_face", "filter_single_face_images", <<"Path">>, {"output_folder"},
            "face_cropped", "single_face"),
       Site("identify", "identify_process_folder", <<"Path">>, {"output_folder"},
            "single_face", "identified") >>

\* process_images_zoom_face, lines 131-202
ZoomChain ==
    << Site("select", "select_best_images", <<"str", "ImageSelectionConfig">>, {},
            "", "1_selected"),
       Site("single_face", "filter_single_face_images", <<"Path">>, {"output_folder"},
            "1_selected", "2_single_face"),
       Site("zoom", "zoom_process_folder", <<"Path">>, {"output_folder", "zoom_factor"},
            "2_single_face", "3_zoomed"),
       Site("filter", "filter_by_resolution", <<"Path">>, {"min_size", "output_folder"},
            "3_zoomed", "4_filtered"),
       Site("resize", "batch_resize_images", <<"Path">>,
            {"target_size", "quality", "output_folder"}, "4_filtered", "5_final"),
       Site("face_crop", "face_crop_process_folder", <<"Path">>,
            {"output_folder", "target_size"}, "5_final", "final"),
       Site("identify", "identify_process_folder", <<"Path">>, {"output_folder"},
            "final", "6_identified") >>

Chain(variant) == IF variant = "zoom" THEN ZoomChain ELSE DefaultChain

\* (mutant) every call binds and returns
CallOutcome_AlwaysOk(site) == "ok"

\* What Python does with a call: TypeError for a keyword the callee does not have or a
\* required parameter left unbound; AttributeError where select_best_images (line 53) and
\* batch_resize_images (line 49) call output_path.mkdir on a value that is no Path
CallOutcome(site) ==
    LET sig == Signatures[site.callee]
        names == { sig.params[i] : i \in 1..Len(sig.params) }
        bound == { sig.params[i] : i \in 1..Len(site.positional) } \cup site.keywords
        unbound == { sig.params[i] : i \in 1..sig.required } \ bound
        kind_of_output ==
            IF \E i \in 1..Len(site.positional) : sig.params[i] = "output_path"
            THEN site.positional[CHOOSE i \in 1..Len(site.positional) : sig.params[i] = "output_path"]
            ELSE "Path"
    IN  IF ~(site.keywords \subseteq names) \/ unbound # {} THEN "TypeError"
        ELSE IF kind_of_output # "Path" THEN "AttributeError"
        ELSE "ok"

\* The directory a site reads and the folder it writes, under the run's input directory
ReadsDir(input_dir, site) == IF site.reads = "" THEN input_dir ELSE Join(input_dir, site.reads)
WritesDir(input_dir, site) == Join(input_dir, site.writes)

\* The directory the callee of a site writes into. select_best_images and
\* batch_resize_images write into their output_path argument, which is a directory only
\* when a Path is bound to it; the others write into input_folder.parent / output_folder.
WrittenDir(input_dir, site) ==
    LET sig == Signatures[site.callee]
        at == { i \in 1..Len(sig.params) : sig.params[i] = "output_path" }
    IN  IF at # {}
        THEN IF \E i \in at : i <= Len(site.positional) /\ site.positional[i] = "Path"
             THEN WritesDir(input_dir, site)
             ELSE NoPath
        ELSE Join(Parent(ReadsDir(input_dir, site)), site.writes)

\* What a transform that returns normally leaves behind: its output folder, holding a
\* file for some of the image files it read
TransformEffect(f, input_dir, site, kept) ==
    LET f1 == Mkdir(f, WrittenDir(input_dir, site))
        outs == { Join(WrittenDir(input_dir, site), name) : name \in kept }
    IN  [q \in DOMAIN f1 \cup outs |->
            IF q \in outs THEN f1[Join(ReadsDir(input_dir, site), BaseName(q))] ELSE f1[q]]

\* file_pattern.split(","): the number of patterns in the values the model uses
Patterns(file_pattern) == IF file_pattern = "*.jpg,*.png" THEN <<"*.jpg", "*.png">> ELSE <<file_pattern>>

RunParams == [target_size : {512}, jpeg_quality : {95, 80}, file_pattern : {"*.jpg", "*.jpg,*.png"}]

NoSnapshot == [variant |-> "", input_dir |-> Root, params |-> [target_size |-> 0, jpeg_quality |-> 0, file_pattern |-> ""], input |-> {}]

RunIdle ==
    [pc |-> "idle", no |-> 0, entry |-> "", variant |-> "", input_dir |-> Root,
     params |-> NoSnapshot.params, stage |-> 0, pattern |-> 0, invoked |-> <<>>, error |-> "",
     started |-> NoSnapshot, prev |-> NoSnapshot]

\* The caller enters process_images (variant "default") or process_images_zoom_face, or
\* the command line enters main, which calls one of the two (entry "main")
StartRun(entry, variant, input_dir, params) ==
    /\ run.pc = "idle"
    /\ run.no < MaxRuns
    /\ run' = [pc |-> IF entry = "main" THEN "main" ELSE "entered",
               no |-> run.no + 1, entry |-> entry, variant |-> variant, input_dir |-> input_dir,
               params |-> params, stage |-> 0, pattern |-> 0, invoked |-> <<>>, error |-> "",
               started |-> [variant |-> variant, input_dir |-> input_dir, params |-> params,
                            input |-> IF IsDir(fs, input_dir) THEN NameSizeOf(fs, input_dir) ELSE {}],
               prev |-> run.started]
    /\ UNCHANGED <<fs, w, made, env, calls, args, out>>

\* the extension of the file names the model uses
Extension(name) == IF name \in FileNames THEN ".jpg" ELSE ""

\* Path.glob(pattern) for a pattern "*<extension>": nothing when the directory is missing
Glob(f, dir, pattern) ==
    IF ~IsDir(f, dir) THEN {}
    ELSE { q \in Children(f, dir) : pattern = "*" \o Extension(BaseName(q)) }

\* main, lines 232-244: the files matching the patterns are listed; with none, main prints
\* "No input files found!" and returns
MainListInput ==
    /\ run.pc = "main"
    /\ LET patterns == Patterns(run.params.file_pattern)
           input_files == UNION { Glob(fs, run.input_dir, patterns[i]) : i \in 1..Len(patterns) }
       IN  run' = IF input_files = {}
                  THEN [run EXCEPT !.pc = "returned"]
                  ELSE [run EXCEPT !.pc = "entered"]
    /\ UNCHANGED <<fs, w, made, env, calls, args, out>>

\* (mutant) the check of lines 37-39 always passes
input_exists_Always(f, input_dir) == TRUE

\* lines 38 and 128: input_path.exists()
input_exists(f, input_dir) == Exists(f, input_dir)

\* lines 37-39 and 127-129
CheckInput ==
    /\ run.pc = "entered"
    /\ run' = IF input_exists(fs, run.input_dir)
              THEN [run EXCEPT !.pc = "stage", !.stage = 1, !.pattern = 1]
              ELSE [run EXCEPT !.pc = "raised", !.error = "ValueError"]
    /\ UNCHANGED <<fs, w, made, env, calls, args, out>>

\* The call of a stage transform is made. The select stage is called once per pattern
\* (lines 43-52, 133-142).
BeginStage ==
    /\ run.pc = "stage"
    /\ run' = [run EXCEPT !.pc = "in_stage",
                          !.invoked = Append(run.invoked, Chain(run.variant)[run.stage].stage)]
    /\ UNCHANGED <<fs, w, made, env, calls, args, out>>

\* The call ends: it returns and the function goes on to its next call, or it raises and
\* the exception leaves the function at once.
EndStage ==
    /\ run.pc = "in_stage"
    /\ LET chain == Chain(run.variant)
           site == chain[run.stage]
           outcome == CallOutcome(site)
           more == site.stage = "select" /\ run.pattern < Len(Patterns(run.params.file_pattern))
       IN  IF outcome # "ok"
           THEN /\ run' = [run EXCEPT !.pc = "raised", !.error = outcome]
                /\ fs' = fs
           ELSE /\ IsDir(fs, ReadsDir(run.input_dir, site))
                /\ \E kept \in SUBSET { BaseName(q) : q \in { c \in Children(fs, ReadsDir(run.input_dir, site)) :
                                                               fs[c].kind = "file" } } :
                     fs' = TransformEffect(fs, run.input_dir, site, kept)
                /\ run' = [run EXCEPT !.pattern = IF more THEN run.pattern + 1 ELSE run.pattern,
                                      !.stage = IF more THEN run.stage ELSE run.stage + 1,
                                      !.pc = IF ~more /\ run.stage = Len(chain) THEN "done" ELSE "stage"]
    /\ UNCHANGED <<w, made, env, calls, args, out>>

\* (mutant) main's handler prints the exception and does not raise it again
main_except_Swallow(error) == ""

\* main, lines 271-273: except Exception prints the error and raises it again
main_except(error) == error

\* The function returns, or its exception reaches the caller: run.error is from then on
\* what the caller of the run got
EndRun ==
    /\ run.pc \in {"done", "raised", "returned"}
    /\ run' = [run EXCEPT !.pc = "idle",
                          !.error = IF run.entry = "main" THEN main_except(run.error)
                                    ELSE run.error]
    /\ UNCHANGED <<fs, w, made, env, calls, args, out>>

NextPipe ==
    \/ \E entry \in {"direct", "main"}, variant \in {"default", "zoom"},
          input_dir \in {InputDir, MissingDir}, params \in RunParams :
         StartRun(entry, variant, input_dir, params)
    \/ MainListInput
    \/ CheckInput
    \/ BeginStage
    \/ EndStage
    \/ EndRun
    \/ EnvChange

Init ==
    /\ fs = FsInit
    /\ w = [p \in Procs |-> WIdle]
    /\ made = <<>>
    /\ env = 0
    /\ calls = 0
    /\ run = RunIdle
    /\ args = NoArgs
    /\ out = NoOut

Next ==
    \/ \E p \in Procs, stage_name \in StageNames, config \in CallConfigs,
          input_path \in {NoPath, MissingDir} :
         MakeStageFolder_Key(p, stage_name, config, InputDir, input_path)
    \/ \E p \in Procs : MakeStageFolder_Decide(p)
    \/ \E p \in Procs : RunTransform(p)
    \/ \E p \in Procs : SkipTransform(p)
    \/ EnvChange

Spec == Init /\ [][Next]_vars

(***************************************************************************)
(* One caller at a time (single-writer access), whose transform may be     *)
(* aborted part-way.  The caller starts on a fresh input directory or on   *)
(* one an earlier run has left a cache entry for.                          *)
(***************************************************************************)
Writer == "p1"

\* the input directory with a.jpg and b.jpg in it
FsTwoFiles == WithNode(FsInit, Join(InputDir, "b.jpg"), FileNode(100, 1, "x"))

\* the folder make_stage_folder derives for that input, stage resize and the default config
WarmFolder ==
    folder_path(InputDir, "resize", DefaultConfig, Fields,
                get_folder_hash(CHOOSE listing \in IterDir(FsTwoFiles, InputDir) : TRUE))

\* the state an earlier run leaves: the folder resolved and populated for the two files,
\* and b.jpg removed from the input afterwards
FsWarm ==
    LET f1 == Mkdir(Mkdir(FsTwoFiles, processed_path(InputDir)), WarmFolder)
        f2 == batch_resize_images(f1, InputDir, WarmFolder)
    IN  [q \in DOMAIN f2 \ {Join(InputDir, "b.jpg")} |-> f2[q]]

MadeWarm ==
    [d \in {WarmFolder} |->
        [input |-> NameSizeOf(FsTwoFiles, InputDir), complete |-> TRUE,
         stage_name |-> "resize", config |-> DefaultConfig, as_keyed |-> TRUE]]

InitSeq ==
    /\ \/ fs = FsInit /\ made = <<>>
       \/ fs = FsWarm /\ made = MadeWarm
    /\ w = [p \in Procs |-> WIdle]
    /\ env = 0
    /\ calls = 0
    /\ run = RunIdle
    /\ args = NoArgs
    /\ out = NoOut

NextSeq ==
    \/ \E stage_name \in StageNames, config \in CallConfigs, input_path \in {NoPath, MissingDir} :
         MakeStageFolder_Key(Writer, stage_name, config, InputDir, input_path)
    \/ MakeStageFolder_Decide(Writer)
    \/ RunTransform(Writer)
    \/ AbortTransform(Writer)
    \/ SkipTransform(Writer)
    \/ EnvChange

SpecSeq == InitSeq /\ [][NextSeq]_vars

SpecPipe == Init /\ [][NextPipe]_vars

(***************************************************************************)
(* The stage transforms of single_face.py and face_crop.py, called on a    *)
(* folder as their scripts call them                                       *)
(***************************************************************************)
MaxStageCalls == 2

image_extensions == {".jpg", ".jpeg", ".png"}

\* the entries of input_path the loops of the transforms do not skip
ImagesOf(f, input_path) ==
    { q \in Children(f, input_path) : Extension(BaseName(q)) \in image_extensions }

\* the file cv2.imwrite leaves for an image made from source file q
WrittenImage(f, q) == FileNode(EncodedSize(f[q].size), 2, f[q].content)

\* single_face.filter_single_face_images(input_folder, output_folder). detect_face_count
\* (lines 6-45) returns 0 without writing when no cascade file loads or the image cannot
\* be read; otherwise it saves the annotated image to image_path.parent / "debug_faces",
\* next to the image it was given, and returns the count. Images with one face are copied.
filter_single_face_images(f, input_folder, output_folder, cascade, readable, faces) ==
    LET output_path == Join(Parent(input_folder), output_folder)
        f1 == Mkdir(f, output_path)
        images == ImagesOf(f1, input_folder)
        detected == IF cascade THEN { q \in images : BaseName(q) \in readable } ELSE {}
        debug_path == Join(input_folder, "debug_faces")
        f2 == IF detected = {} THEN f1 ELSE Mkdir(f1, debug_path)
        debugs == { Join(debug_path, BaseName(q)) : q \in detected }
        copies == { Join(output_path, BaseName(q)) : q \in { d \in detected : faces[BaseName(d)] = 1 } }
    IN  [q \in DOMAIN f2 \cup debugs \cup copies |->
            IF q \in copies THEN f1[Join(input_folder, BaseName(q))]
            ELSE IF q \in debugs THEN WrittenImage(f1, Join(input_folder, BaseName(q)))
            ELSE f2[q]]

\* face_crop.process_folder(input_folder, output_folder, target_size, debug): every image
\* that can be read is cropped into input_path.parent / output_folder; with debug (the
\* default) a drawing of each goes to input_path.parent / "{output_folder}_debug"
face_crop_process_folder(f, input_folder, output_folder, debug, readable) ==
    LET output_path == Join(Parent(input_folder), output_folder)
        debug_path == Join(Parent(input_folder), output_folder \o "_debug")
        f1 == Mkdir(f, output_path)
        f2 == IF debug THEN Mkdir(f1, debug_path) ELSE f1
        read == { q \in ImagesOf(f2, input_folder) : BaseName(q) \in readable }
        debugs == IF debug THEN { Join(debug_path, "debug_" \o BaseName(q)) : q \in read } ELSE {}
        crops == { Join(output_path, BaseName(q)) : q \in read }
        src(q) == CHOOSE r \in read : q \in {Join(output_path, BaseName(r)),
                                             Join(debug_path, "debug_" \o BaseName(r))}
    IN  [q \in DOMAIN f2 \cup debugs \cup crops |->
            IF q \in debugs \cup crops THEN WrittenImage(f2, src(q)) ELSE f2[q]]

\* the folders the calls are made on
StageInputs == {InputDir, Join(DataDir, "single_face"), Join(DataDir, "face_cropped")}

\* python single_face.py <folder>, or filter_single_face_images called by a program
CallFilterSingleFace(input_folder, cascade, readable, faces) ==
    /\ calls < MaxStageCalls
    /\ IsDir(fs, input_folder)
    /\ calls' = calls + 1
    /\ fs' = filter_single_face_images(fs, input_folder, "single_face", cascade, readable, faces)
    /\ out' = [kind |-> "stage", transform |-> "filter_single_face_images",
               reads |-> input_folder, writes |-> Join(Parent(input_folder), "single_face"),
               before |-> fs]
    /\ UNCHANGED <<w, made, env, run, args>>

\* python face_crop.py <folder>, or process_folder called by a program
CallFaceCrop(input_folder, debug, readable) ==
    /\ calls < MaxStageCalls
    /\ IsDir(fs, input_folder)
    /\ calls' = calls + 1
    /\ fs' = face_crop_process_folder(fs, input_folder, "face_cropped", debug, readable)
    /\ out' = [kind |-> "stage", transform |-> "face_crop_process_folder",
               reads |-> input_folder, writes |-> Join(Parent(input_folder), "face_cropped"),
               before |-> fs]
    /\ UNCHANGED <<w, made, env, run, args>>

\* batch_resize_images called with a Path for output_path
CallBatchResize(input_folder) ==
    /\ calls < MaxStageCalls
    /\ IsDir(fs, input_folder)
    /\ calls' = calls + 1
    /\ fs' = batch_resize_images(fs, input_folder, Join(Parent(input_folder), "resized"))
    /\ out' = [kind |-> "stage", transform |-> "batch_resize_images",
               reads |-> input_folder, writes |-> Join(Parent(input_folder), "resized"),
               before |-> fs]
    /\ UNCHANGED <<w, made, env, run, args>>

InitStage ==
    /\ fs \in { WithNode(FsInit, Join(InputDir, "b.jpg"), FileNode(size, 1, "y")) : size \in Sizes }
              \cup {FsInit}
    /\ w = [p \in Procs |-> WIdle]
    /\ made = <<>>
    /\ env = 0
    /\ calls = 0
    /\ run = RunIdle
    /\ args = NoArgs
    /\ out = NoOut

NextStage ==
    \/ \E input_folder \in StageInputs, cascade \in BOOLEAN, readable \in SUBSET FileNames,
          faces \in [FileNames -> 0..2] :
         CallFilterSingleFace(input_folder, cascade, readable, faces)
    \/ \E input_folder \in StageInputs, debug \in BOOLEAN, readable \in SUBSET FileNames :
         CallFaceCrop(input_folder, debug, readable)
    \/ \E input_folder \in StageInputs : CallBatchResize(input_folder)

SpecStage == InitStage /\ [][NextStage]_vars

(***************************************************************************)
(* get_folder_hash applied to two directory listings                       *)
(***************************************************************************)
MaxEntries == 2

\* what iterdir can yield: regular files of any size, time and bytes, and a subdirectory
FpEntries ==
    [name : FileNames, kind : {"file"}, size : Sizes, mtime : {1, 2}, content : Contents]
    \cup { [name |-> "debug", kind |-> "dir", size |-> 0, mtime |-> 0, content |-> ""] }

Listings ==
    UNION { { l \in [1..n -> FpEntries] : \A i, j \in 1..n : l[i].name = l[j].name => i = j } :
            n \in 0..MaxEntries }

InitFp ==
    /\ fs = FsInit
    /\ w = [p \in Procs |-> WIdle]
    /\ made = <<>>
    /\ env = 0
    /\ calls = 0
    /\ run = RunIdle
    /\ args \in [kind : {"fp"}, a : Listings, b : Listings]
    /\ out = NoOut

FpApply ==
    /\ out = NoOut
    /\ out' = [kind |-> "fp", ha |-> get_folder_hash(args.a), hb |-> get_folder_hash(args.b)]
    /\ UNCHANGED <<fs, w, made, env, calls, run, args>>

SpecFp == InitFp /\ [][FpApply]_vars

(***************************************************************************)
(* The stage key and the candidate directory of two derivations            *)
(***************************************************************************)
Reverse(s) == [i \in 1..Len(s) |-> s[Len(s) + 1 - i]]

\* the declaration order of the dataclass, and the opposite one
DeclOrders == {Fields, Reverse(Fields)}

\* the default configuration, and every configuration that differs from it in one
\* field, by another value or by None
OtherValue ==
    [ target_size |-> IntV(256), file_pattern |-> StrV("*.png"),
      prefix_separator |-> StrV("-"), jpeg_quality |-> IntV(80),
      zoom_factor |-> FloatV(15), face_tolerance |-> FloatV(5),
      min_cluster_size |-> IntV(2) ]

KeyConfigs ==
    {DefaultConfig}
    \cup { [DefaultConfig EXCEPT ![Fields[i]] = OtherValue[Fields[i]]] : i \in 1..Len(Fields) }
    \cup { [DefaultConfig EXCEPT ![Fields[i]] = None] : i \in 1..Len(Fields) }

KeyStages == {"select", "resize"}

KeyListings ==
    { << [name |-> "a.jpg", kind |-> "file", size |-> 100, mtime |-> 1, content |-> "x"] >>,
      << [name |-> "a.jpg", kind |-> "file", size |-> 200, mtime |-> 1, content |-> "x"] >> }

KeyBases == {InputDir, DataDir, Root}

Derivations == [stage_name : KeyStages, config : KeyConfigs, decl : DeclOrders, listing : KeyListings]

InitKey ==
    /\ fs = FsInit
    /\ w = [p \in Procs |-> WIdle]
    /\ made = <<>>
    /\ env = 0
    /\ calls = 0
    /\ run = RunIdle
    /\ args \in [kind : {"key"}, d1 : Derivations, d2 : Derivations, base : KeyBases]
    /\ out = NoOut

KeyOf(d) == folder_hash(d.stage_name, d.config, d.decl, get_folder_hash(d.listing))

KeyApply ==
    /\ out = NoOut
    /\ out' = [kind |-> "key",
               fp1 |-> get_folder_hash(args.d1.listing),
               fp2 |-> get_folder_hash(args.d2.listing),
               key1 |-> KeyOf(args.d1),
               key2 |-> KeyOf(args.d2),
               hash1 |-> get_hash(args.d1.config, args.d1.decl, args.d1.stage_name,
                                  args.d1.listing),
               path1 |-> folder_path(args.base, args.d1.stage_name, args.d1.config,
                                     args.d1.decl, get_folder_hash(args.d1.listing)),
               path2 |-> folder_path(args.base, args.d2.stage_name, args.d2.config,
                                     args.d2.decl, get_folder_hash(args.d2.listing))]
    /\ UNCHANGED <<fs, w, made, env, calls, run, args>>

SpecKey == InitKey /\ [][KeyApply]_vars

(***************************************************************************)
(* group_similarity.find_similar_groups                                    *)
(***************************************************************************)
MaxHashes == 3

\* a perceptual hash, as the set of its bits that are one
HashValues == SUBSET {1, 2}

\* the keys of the dict, in insertion order
PathNames == <<"f1", "f2", "f3", "f4", "f5">>

Thresholds == {0, 1, 2}

\* ImageHash.__sub__: the number of bits in which two hashes differ
HashDistance(h1, h2) == Cardinality((h1 \ h2) \cup (h2 \ h1))

\* (mutant) the inner loop takes a path that is already in a group
SimilarTo_AlsoProcessed(hashes, hash1, processed, threshold) ==
    { hashes[j].path : j \in { k \in 1..Len(hashes) :
                                 HashDistance(hash1, hashes[k].hash) <= threshold } }

\* lines 89-92: the paths the inner loop adds to the group of hash1
SimilarTo(hashes, hash1, processed, threshold) ==
    { hashes[j].path : j \in { k \in 1..Len(hashes) :
                                 /\ hashes[k].path \notin processed
                                 /\ HashDistance(hash1, hashes[k].hash) <= threshold } }

\* lines 80-95: the outer loop from item i on
RECURSIVE GroupsFrom(_, _, _, _, _)
GroupsFrom(hashes, threshold, i, processed, groups) ==
    IF i > Len(hashes) THEN groups
    ELSE IF hashes[i].path \in processed
    THEN GroupsFrom(hashes, threshold, i + 1, processed, groups)
    ELSE LET path1 == hashes[i].path
             current_group ==
                 {path1} \cup SimilarTo(hashes, hashes[i].hash, processed \cup {path1}, threshold)
         IN  GroupsFrom(hashes, threshold, i + 1, processed \cup current_group,
                        IF Cardinality(current_group) > 1
                        THEN Append(groups, [seed |-> path1, members |-> current_group])
                        ELSE groups)

\* find_similar_groups(hashes, config): the groups in the order they are appended, each
\* with the path the outer loop started it from
find_similar_groups(hashes, threshold) == GroupsFrom(hashes, threshold, 1, {}, <<>>)

HashInputs ==
    UNION { { [i \in 1..n |-> [path |-> PathNames[i], hash |-> h[i]]] : h \in [1..n -> HashValues] } :
            n \in 0..MaxHashes }

InitGroups ==
    /\ fs = FsInit
    /\ w = [p \in Procs |-> WIdle]
    /\ made = <<>>
    /\ env = 0
    /\ calls = 0
    /\ run = RunIdle
    /\ args \in [kind : {"groups"}, hashes : HashInputs, threshold : Thresholds]
    /\ out = NoOut

GroupsApply ==
    /\ out = NoOut
    /\ out' = [kind |-> "groups", groups |-> find_similar_groups(args.hashes, args.threshold)]
    /\ UNCHANGED <<fs, w, made, env, calls, run, args>>

SpecGroups == InitGroups /\ [][GroupsApply]_vars

(***************************************************************************)
(* selecter.select_best_images.  A file name is the sequence of its        *)
(* characters; the images are given in the order glob yields them.         *)
(***************************************************************************)
MaxImages == 3

ImageNames == { <<"a", "_", "1">>, <<"a", "_", "2">>, <<"a", "_", "3">>, <<"a", "-", "4">> }

\* (width, height) of the images
ImageSizes == { <<1, 3>>, <<3, 2>>, <<3, 3>>, <<4, 4>> }

TargetSizes == {2, 3}

Separators == {"_", "-"}

\* filename.split(separator)[0]: the characters before the first separator, or all
get_prefix(filename, separator) ==
    LET at == { i \in 1..Len(filename) : filename[i] = separator }
    IN  IF at = {} THEN filename
        ELSE SubSeq(filename, 1, (CHOOSE i \in at : \A j \in at : i <= j) - 1)

\* abs
Abs(n) == IF n < 0 THEN 0 - n ELSE n

\* get_resolution_score: (is_larger, distance)
get_resolution_score(width, height, target) ==
    [is_larger |-> width >= target /\ height >= target,
     distance |-> Abs(width - target) + Abs(height - target), inf |-> FALSE]

\* line 59: (False, float('inf'))
NoScore == [is_larger |-> FALSE, distance |-> 0, inf |-> TRUE]

\* score[1] < best_score[1], where best_score[1] may be float('inf')
DistanceLess(score, best_score) ==
    ~score.inf /\ (best_score.inf \/ score.distance < best_score.distance)

\* (mutant) an equal distance replaces the best image too
Improves_OrEqual(score, best_score) ==
    \/ score.is_larger /\ ~best_score.is_larger
    \/ /\ score.is_larger = best_score.is_larger
       /\ (DistanceLess(score, best_score) \/ score.distance = best_score.distance)

\* the condition of lines 67-68
Improves(score, best_score) ==
    \/ score.is_larger /\ ~best_score.is_larger
    \/ score.is_larger = best_score.is_larger /\ DistanceLess(score, best_score)

\* group_images_by_prefix: the images of one prefix, in the order glob yields them
group_images_by_prefix(images, separator) ==
    [prefix \in { get_prefix(images[i].name, separator) : i \in 1..Len(images) } |->
        SelectSeq(images, LAMBDA im : get_prefix(im.name, separator) = prefix)]

\* lines 59-70: the loop over the images of a group, from image i on
RECURSIVE BestFrom(_, _, _, _, _)
BestFrom(images, target, i, best_score, best_image) ==
    IF i > Len(images) THEN best_image
    ELSE LET score == get_resolution_score(images[i].width, images[i].height, target)
         IN  IF Improves(score, best_score)
             THEN BestFrom(images, target, i + 1, score, images[i].name)
             ELSE BestFrom(images, target, i + 1, best_score, best_image)

\* select_best_images: the names of the files copied into output_path (best_image of a
\* group is a Path, which is true, so every group copies its best image)
select_best_images(images, target, separator) ==
    LET image_groups == group_images_by_prefix(images, separator)
    IN  { BestFrom(image_groups[prefix], target, 1, NoScore, <<>>) : prefix \in DOMAIN image_groups }

SelectInputs ==
    UNION { { [i \in 1..n |-> [name |-> names[i], width |-> sizes[i][1], height |-> sizes[i][2]]] :
              names \in { s \in [1..n -> ImageNames] : \A i, j \in 1..n : s[i] = s[j] => i = j },
              sizes \in [1..n -> ImageSizes] } :
            n \in 0..MaxImages }

InitSelect ==
    /\ fs = FsInit
    /\ w = [p \in Procs |-> WIdle]
    /\ made = <<>>
    /\ env = 0
    /\ calls = 0
    /\ run = RunIdle
    /\ args \in [kind : {"select"}, images : SelectInputs, target : TargetSizes,
                 separator : Separators]
    /\ out = NoOut

SelectApply ==
    /\ out = NoOut
    /\ out' = [kind |-> "select",
               copied |-> select_best_images(args.images, args.target, args.separator)]
    /\ UNCHANGED <<fs, w, made, env, calls, run, args>>

SpecSelect == InitSelect /\ [][SelectApply]_vars

(***************************************************************************)
(* face_crop.crop_around_point                                             *)
(***************************************************************************)
MaxSide == 5

Max2(a, b) == IF a >= b THEN a ELSE b
Min2(a, b) == IF a <= b THEN a ELSE b

\* the position a slice bound stands for in an axis of n pixels: a negative bound counts
\* from the end, and bounds are clipped to the axis
SliceBound(i, n) == IF i < 0 THEN Max2(0, i + n) ELSE Min2(i, n)

\* the number of pixels image[lo:hi] has along an axis of n pixels
SliceLen(lo, hi, n) == Max2(0, SliceBound(hi, n) - SliceBound(lo, n))

\* one axis of crop_around_point (lines 58-60 and 64-68, the same as 60-61 and 69-73):
\* the bounds of the slice for a center c on an axis of n pixels
CropAxis(n, c, target_size) ==
    LET half_size == target_size \div 2
        lo == Max2(0, c - half_size)
        hi == Min2(n, c + half_size)
    IN  IF hi - lo < target_size
        THEN IF lo = 0 THEN [lo |-> lo, hi |-> target_size]
             ELSE [lo |-> n - target_size, hi |-> hi]
        ELSE [lo |-> lo, hi |-> hi]

\* crop_around_point(image, center_x, center_y, target_size): the bounds it slices with
\* and the shape of the region it returns
crop_around_point(width, height, center_x, center_y, target_size) ==
    LET x == CropAxis(width, center_x, target_size)
        y == CropAxis(height, center_y, target_size)
    IN  [left |-> x.lo, right |-> x.hi, top |-> y.lo, bottom |-> y.hi,
         cols |-> SliceLen(x.lo, x.hi, width), rows |-> SliceLen(y.lo, y.hi, height)]

InitCrop ==
    /\ fs = FsInit
    /\ w = [p \in Procs |-> WIdle]
    /\ made = <<>>
    /\ env = 0
    /\ calls = 0
    /\ run = RunIdle
    /\ args \in { a \in [kind : {"crop"}, width : 1..MaxSide, height : 1..MaxSide,
                         center_x : 0..(MaxSide - 1), center_y : 0..(MaxSide - 1),
                         target_size : 1..MaxSide] :
                    a.center_x < a.width /\ a.center_y < a.height }
    /\ out = NoOut

CropApply ==
    /\ out = NoOut
    /\ out' = [kind |-> "crop",
               region |-> crop_around_point(args.width, args.height, args.center_x,
                                            args.center_y, args.target_size)]
    /\ UNCHANGED <<fs, w, made, env, calls, run, args>>

SpecCrop == InitCrop /\ [][CropApply]_vars

(***************************************************************************)
(* zoom_face.zoom_and_crop_face                                            *)
(***************************************************************************)
\* zoom factors in tenths: 0.5, 1.0, the function's default 1.5 and the pipeline's 2.5,
\* all exact as floats, so that int(w * zoom_factor) is (w * tenths) \div 10
ZoomTenths == {5, 10, 15, 25}

\* int(w * zoom_factor) for a non-negative product
Zoomed(len, tenths) == (len * tenths) \div 10

ZoomAxis_NoAdjust(n, pos, len, tenths) ==
    LET center == pos + (len \div 2)
        new_len == Zoomed(len, tenths)
        lo == Max2(0, center - (new_len \div 2))
        hi == Min2(n, lo + new_len)
    IN  [lo |-> lo, hi |-> hi, new_len |-> new_len]

\* one axis of zoom_and_crop_face (lines 47, 51, 55, 57, 61-62; the same as 48, 52, 56,
\* 58, 63-64): the bounds of the slice for a face side [pos, pos + len) on an axis of n pixels
ZoomAxis(n, pos, len, tenths) ==
    LET center == pos + (len \div 2)
        new_len == Zoomed(len, tenths)
        lo == Max2(0, center - (new_len \div 2))
        hi == Min2(n, lo + new_len)
    IN  IF hi - lo < new_len
        THEN [lo |-> Max2(0, n - new_len), hi |-> hi, new_len |-> new_len]
        ELSE [lo |-> lo, hi |-> hi, new_len |-> new_len]

\* zoom_and_crop_face on an image of W x H pixels that could be read or not, in which
\* detect_face_region found exactly one face (x, y, w, h) or did not
zoom_and_crop_face(readable, detected, W, H, x, y, fw, fh, tenths) ==
    IF ~readable \/ ~detected
    THEN [success |-> FALSE, size |-> <<0, 0>>, written |-> <<0, 0>>,
          left |-> 0, right |-> 0, top |-> 0, bottom |-> 0]
    ELSE LET ax == ZoomAxis(W, x, fw, tenths)
             ay == ZoomAxis(H, y, fh, tenths)
         IN  [success |-> TRUE,
              size |-> <<ax.hi - ax.lo, ay.hi - ay.lo>>,
              written |-> <<SliceLen(ax.lo, ax.hi, W), SliceLen(ay.lo, ay.hi, H)>>,
              left |-> ax.lo, right |-> ax.hi, top |-> ay.lo, bottom |-> ay.hi]

InitZoom ==
    /\ fs = FsInit
    /\ w = [p \in Procs |-> WIdle]
    /\ made = <<>>
    /\ env = 0
    /\ calls = 0
    /\ run = RunIdle
    /\ args \in { a \in [kind : {"zoom"}, readable : BOOLEAN, detected : BOOLEAN,
                         W : 1..MaxSide, H : 1..MaxSide,
                         x : 0..(MaxSide - 1), y : 0..(MaxSide - 1),
                         w : 1..MaxSide, h : 1..MaxSide, zoom : ZoomTenths] :
                    /\ a.x + a.w <= a.W
                    /\ a.y + a.h <= a.H
                    /\ (~a.readable => ~a.detected) }
    /\ out = NoOut

ZoomApply ==
    /\ out = NoOut
    /\ out' = [kind |-> "zoom",
               crop |-> zoom_and_crop_face(args.readable, args.detected, args.W, args.H,
                                           args.x, args.y, args.w, args.h, args.zoom)]
    /\ UNCHANGED <<fs, w, made, env, calls, run, args>>

SpecZoom == InitZoom /\ [][ZoomApply]_vars

(***************************************************************************)
(* One caller whose stage groups similar images into subdirectories, on an *)
(* input directory that may hold a subdirectory                            *)
(***************************************************************************)
SubDir == Join(InputDir, "sub")
SubFile == Join(SubDir, "c.png")

\* the input directory with a subdirectory that holds a file
FsSub ==
    [q \in DOMAIN FsInit \cup {SubDir, SubFile} |->
        IF q = SubDir THEN DirNode
        ELSE IF q = SubFile THEN FileNode(100, 1, "x")
        ELSE FsInit[q]]

MakeSubdir ==
    /\ env < MaxEnv
    /\ ~Exists(fs, SubDir)
    /\ fs' = WithNode(fs, SubDir, DirNode)
    /\ env' = env + 1
    /\ UNCHANGED <<w, made, calls, run, args, out>>

\* the subdirectory is removed with what is in it
RemoveSubdir ==
    /\ env < MaxEnv
    /\ Exists(fs, SubDir)
    /\ fs' = [q \in { r \in DOMAIN fs : ~Under(r, SubDir) } |-> fs[q]]
    /\ env' = env + 1
    /\ UNCHANGED <<w, made, calls, run, args, out>>

\* a file inside the subdirectory is created, or rewritten with another size
WriteSubFile(size) ==
    /\ env < MaxEnv
    /\ IsDir(fs, SubDir)
    /\ Exists(fs, SubFile) => fs[SubFile].size # size
    /\ fs' = WithNode(fs, SubFile, FileNode(size, 1, "x"))
    /\ env' = env + 1
    /\ UNCHANGED <<w, made, calls, run, args, out>>

DirChange ==
    \/ MakeSubdir
    \/ RemoveSubdir
    \/ \E size \in Sizes : WriteSubFile(size)
    \/ \E name \in {"b.jpg"}, size \in {100} : AddFile(name, size)

\* group_similar_images, line 107: the extensions it globs for
group_image_extensions == {".jpg", ".jpeg", ".png", ".webp"}

\* f"group_{i:03d}"
GroupDirName(i) == "group_00" \o ToString(i)

\* group_similarity.group_similar_images(input_dir, output_dir), lines 105-156: hashes is
\* the dict of perceptual hashes it collects (one item per image that is not trivial, in
\* the order the futures are collected); every group of find_similar_groups gets a
\* subdirectory of output_path, and its members are copied there
group_similar_images(f, input_path, output_path, hashes, threshold) ==
    LET f1 == Mkdir(f, output_path)
        groups == find_similar_groups(hashes, threshold)
        dirs == { Join(output_path, GroupDirName(i)) : i \in 1..Len(groups) }
        copies == UNION { { Join(Join(output_path, GroupDirName(i)), m) : m \in groups[i].members } :
                          i \in 1..Len(groups) }
    IN  [q \in DOMAIN f1 \cup dirs \cup copies |->
            IF q \in copies THEN f1[Join(input_path, BaseName(q))]
            ELSE IF q \in dirs /\ ~IsDir(f1, q) THEN DirNode
            ELSE f1[q]]

\* The caller runs group_similar_images on the folder make_stage_folder returned
GroupTransform(p) ==
    /\ w[p].pc = "returned"
    /\ IsDir(fs, w[p].input_folder)
    /\ LET images == { BaseName(q) : q \in { c \in Children(fs, w[p].input_folder) :
                                                /\ fs[c].kind = "file"
                                                /\ Extension(BaseName(c)) \in group_image_extensions } }
       IN  \E hashed \in SUBSET images :
             \E order \in Enumerations(hashed), h \in [hashed -> HashValues],
                threshold \in Thresholds :
                fs' = group_similar_images(fs, w[p].input_folder, w[p].folder_path,
                          [i \in 1..Len(order) |-> [path |-> order[i], hash |-> h[order[i]]]],
                          threshold)
    /\ made' = [d \in DOMAIN made \cup {w[p].folder_path} |->
                   IF d = w[p].folder_path THEN Population(p, TRUE) ELSE made[d]]
    /\ w' = [w EXCEPT ![p] = WIdle]
    /\ UNCHANGED <<env, calls, run, args, out>>

\* the stage, and the base paths the caller passes: the input directory, and "." (a path
\* that is its own parent)
DirStages == {"group"}
DirBases == {InputDir, Root}

InitDir ==
    /\ fs \in {FsInit, FsSub}
    /\ made = <<>>
    /\ w = [p \in Procs |-> WIdle]
    /\ env = 0
    /\ calls = 0
    /\ run = RunIdle
    /\ args = NoArgs
    /\ out = NoOut

NextDir ==
    \/ \E stage_name \in DirStages, base_path \in DirBases :
         MakeStageFolder_Key(Writer, stage_name, DefaultConfig, base_path, NoPath)
    \/ MakeStageFolder_Decide(Writer)
    \/ GroupTransform(Writer)
    \/ SkipTransform(Writer)
    \/ DirChange

SpecDir == InitDir /\ [][NextDir]_vars

(***************************************************************************)
(* Properties                                                              *)
(***************************************************************************)
\* the fingerprint get_folder_hash returns for directory p of f
Fingerprint(f, p) == get_folder_hash(CHOOSE l \in IterDir(f, p) : TRUE)

\* C1: make_stage_folder takes the reuse branch if and only if, when it decides, the
\* candidate exists, is non-empty and the input fingerprint recomputed then equals the
\* fingerprint the key was derived from; in every case the candidate directory exists
\* when it returns.
C1_ReuseIffPopulatedAndUnchanged ==
    [][\A p \in Procs :
         (w[p].pc = "keyed" /\ w'[p].pc = "returned") =>
            /\ w'[p].reused <=>
                 (/\ IsDir(fs, w[p].folder_path)
                  /\ Children(fs, w[p].folder_path) # {}
                  /\ Fingerprint(fs, w[p].input_folder) = w[p].input_hash)
            /\ IsDir(fs', w[p].folder_path)]_vars

\* a call has returned the cached folder
C1_Witness == \E p \in Procs : w[p].pc = "returned" /\ w[p].reused

\* C2 (as claimed): whenever make_stage_folder reports a cache hit, the input's current
\* (name, size) set is the set the input had when the files of the candidate were produced.
C2_HitImpliesInputAsProduced ==
    [][\A p \in Procs :
         (w[p].pc = "keyed" /\ w'[p].pc = "returned" /\ w'[p].reused) =>
            /\ w[p].folder_path \in DOMAIN made
            /\ NameSizeOf(fs, w[p].input_folder) = made[w[p].folder_path].input]_vars

\* the run repeats the previous one: same function, same arguments, same input directory
\* with the same (name, size) set as when the previous run started
RepeatsPreviousRun ==
    /\ run.no >= 2
    /\ run.started.variant = run.prev.variant
    /\ run.started.input_dir = run.prev.input_dir
    /\ run.started.params = run.prev.params
    /\ IsDir(fs, run.input_dir)
    /\ NameSizeOf(fs, run.input_dir) = run.prev.input
    /\ run.started.input = run.prev.input

\* C3 (as claimed): the second of two runs with identical input and configuration invokes
\* no stage transform.
C3_SecondRunInvokesNothing == RepeatsPreviousRun => run.invoked = <<>>

\* stage number i of the run's chain has been invoked in this run
Invoked(i) == \E k \in 1..Len(run.invoked) : run.invoked[k] = Chain(run.variant)[i].stage

\* C4 (as claimed): a run in which stage i executed its transform has, when it ends,
\* executed the transform of every later stage as well.
C4_RecomputeCascades ==
    run.pc \in {"done", "raised"} =>
        \A i, j \in 1..Len(Chain(run.variant)) : (i < j /\ Invoked(i)) => Invoked(j)

\* the run differs from the previous one in jpeg_quality, which only the resize stage
\* (stage 2 of process_images) consumes, and in nothing else
ChangesOnlyStage2Field ==
    /\ run.no >= 2
    /\ run.started.variant = "default"
    /\ run.prev.variant = "default"
    /\ run.started.input_dir = run.prev.input_dir
    /\ run.started.input = run.prev.input
    /\ run.started.params.jpeg_quality # run.prev.params.jpeg_quality
    /\ run.started.params.target_size = run.prev.params.target_size
    /\ run.started.params.file_pattern = run.prev.params.file_pattern
    /\ IsDir(fs, run.input_dir)

\* C5 (as claimed): re-running with only the stage-2 field changed does not invoke the
\* transform of stage 1.
C5_Stage1StaysCached == ChangesOnlyStage2Field => ~Invoked(1)

\* C6: two directories whose regular files have the same (name, size) set get the same
\* digest from get_folder_hash, whatever the enumeration order, the modification times,
\* the bytes, and the subdirectories.
C6_SameNameSizeSameDigest ==
    (out.kind = "fp" /\ NameSizeSet(args.a) = NameSizeSet(args.b)) => out.ha = out.hb

\* two files enumerated in opposite orders, with other times and other bytes
C6_Witness ==
    /\ out.kind = "fp"
    /\ NameSizeSet(args.a) = NameSizeSet(args.b)
    /\ Len(args.a) = 2 /\ Len(args.b) = 2
    /\ args.a[1].kind = "file" /\ args.a[2].kind = "file"
    /\ args.a[1].name = args.b[2].name
    /\ args.a[1].mtime # args.b[2].mtime
    /\ args.a[1].content # args.b[2].content

\* the size recorded for the regular file called name (0 when there is none)
SizeIn(listing, name) ==
    IF \E i \in 1..Len(listing) : listing[i].name = name /\ listing[i].kind = "file"
    THEN listing[CHOOSE i \in 1..Len(listing) : listing[i].name = name].size
    ELSE 0

\* listing b is listing a with the size of exactly one regular file changed
OneSizeChanged(a, b) ==
    /\ { <<a[i].name, a[i].kind>> : i \in 1..Len(a) } = { <<b[i].name, b[i].kind>> : i \in 1..Len(b) }
    /\ Cardinality({ name \in FileNames : SizeIn(a, name) # SizeIn(b, name) }) = 1

\* C7: changing the size of one regular file, all names and other sizes kept, changes
\* the digest get_folder_hash returns.
C7_SizeChangeChangesDigest ==
    (out.kind = "fp" /\ OneSizeChanged(args.a, args.b)) => out.ha # out.hb

\* two files, of which one changed its size
C7_Witness ==
    /\ out.kind = "fp"
    /\ OneSizeChanged(args.a, args.b)
    /\ Cardinality(NameSizeSet(args.a)) = 2

\* C8: the key hash is a function of the stage name, the config's field values and the
\* input fingerprint: whatever the order the fields are declared or inserted in.
C8_KeyIsFunctionOfItsInputs ==
    (/\ out.kind = "key"
     /\ args.d1.stage_name = args.d2.stage_name
     /\ args.d1.config = args.d2.config
     /\ out.fp1 = out.fp2) => out.key1 = out.key2

\* the same inputs, the fields declared in opposite orders
C8_Witness ==
    /\ out.kind = "key"
    /\ args.d1.stage_name = args.d2.stage_name
    /\ args.d1.config = args.d2.config
    /\ out.fp1 = out.fp2
    /\ args.d1.decl # args.d2.decl
    /\ \E i \in 1..Len(Fields) : args.d1.config[Fields[i]] = None

\* C9: for one input fingerprint, two (stage name, config) pairs that differ in the stage
\* name or in a config field get different candidate directories.
C9_DistinctPairsDistinctFolders ==
    (/\ out.kind = "key"
     /\ out.fp1 = out.fp2
     /\ \/ args.d1.stage_name # args.d2.stage_name
        \/ args.d1.config # args.d2.config) => out.path1 # out.path2

\* the same stage and fingerprint, configurations that differ in one field
C9_Witness ==
    /\ out.kind = "key"
    /\ out.fp1 = out.fp2
    /\ args.d1.stage_name = args.d2.stage_name
    /\ args.d1.decl = args.d2.decl
    /\ args.d1.config = DefaultConfig
    /\ args.d2.config = [DefaultConfig EXCEPT !.jpeg_quality = IntV(80)]

\* C10 (as claimed): the candidate directory is base_dir/processed/{stage_name}_{key_hash}.
C10_FolderInsideBase ==
    out.kind = "key" =>
        out.path1 = Join(Join(args.base, "processed"), args.d1.stage_name \o "_" \o out.key1)

\* C10 (amended): the candidate directory is {stage_name}_{key_hash} inside processed/,
\* and processed/ lies in the parent of base_dir, next to base_dir.
C10_FolderNextToBase ==
    out.kind = "key" =>
        /\ Len(out.path1) >= 2
        /\ BaseName(out.path1) = args.d1.stage_name \o "_" \o out.key1
        /\ BaseName(Parent(out.path1)) = "processed"
        /\ Parent(Parent(out.path1)) = Parent(args.base)

\* a base directory two levels below the root
C10_Witness == out.kind = "key" /\ args.base = InputDir /\ out.path1[1] = "data" /\ Len(out.path1) = 3

\* C12 (as claimed): with one caller at a time, whenever make_stage_folder reports a cache
\* hit, the last transform that wrote into the returned folder ran to completion.
C12_HitImpliesCompletePopulation ==
    [][(w[Writer].pc = "keyed" /\ w'[Writer].pc = "returned" /\ w'[Writer].reused) =>
          /\ w[Writer].folder_path \in DOMAIN made
          /\ made[w[Writer].folder_path].complete]_vars


\* a step of make_stage_folder taken by caller p
ResolveStep(p) ==
    \/ w[p].pc = "idle" /\ w'[p].pc \in {"keyed", "raised"}
    \/ w[p].pc = "keyed" /\ w'[p].pc = "returned"

\* C17: no step of make_stage_folder removes or alters anything under processed/: every
\* directory and file that is there before the step is there, unchanged, after it.
C17_ResolveKeepsCacheEntries ==
    [][(\E p \in Procs : ResolveStep(p)) =>
          \A q \in DOMAIN fs :
             Under(q, processed_path(InputDir)) => q \in DOMAIN fs' /\ fs'[q] = fs[q]]_vars

\* make_stage_folder found its candidate populated, took the recompute branch (the input
\* had changed) and the files are still there
C17_Witness ==
    \E p \in Procs :
       /\ w[p].pc = "returned"
       /\ ~w[p].reused
       /\ Children(fs, w[p].folder_path) # {}

\* folder F was created for an input and populated from that input, by a transform that
\* finished, for the stage and config caller p resolves now, and the input p fingerprinted
\* is the input F was made from plus one file
OneFileAdded(p, F) ==
    /\ made[F].complete
    /\ made[F].as_keyed
    /\ Children(fs, F) # {}
    /\ made[F].stage_name = w[p].stage_name
    /\ made[F].config = w[p].config
    /\ IsDir(fs, w[p].input_folder)
    /\ Fingerprint(fs, w[p].input_folder) = w[p].input_hash
    /\ \E added \in NameSizeOf(fs, w[p].input_folder) :
          /\ NameSizeOf(fs, w[p].input_folder) = made[F].input \cup {added}
          /\ \A e \in made[F].input : e[1] # added[1]

\* C18 (as claimed): resolving again after one file was added to the input of a populated
\* cache entry returns another directory than that entry and reports recompute.
C18_AddedFileRecomputes ==
    [][(w[Writer].pc = "keyed" /\ w'[Writer].pc = "returned") =>
          \A F \in DOMAIN made :
             OneFileAdded(Writer, F) => w[Writer].folder_path # F /\ ~w'[Writer].reused]_vars

\* C18 (amended): resolving again after one file was added to the input of a populated
\* cache entry returns another directory than that entry; it reports recompute when that
\* other directory is empty or absent, and reuse when an earlier run has populated it.
C18_AddedFileOtherFolder ==
    [][(w[Writer].pc = "keyed" /\ w'[Writer].pc = "returned") =>
          \A F \in DOMAIN made :
             OneFileAdded(Writer, F) =>
                /\ w[Writer].folder_path # F
                /\ w'[Writer].reused <=> Children(fs, w[Writer].folder_path) # {}]_vars

\* the caller resolved after a file was added to the input of a populated entry, and
\* got another, freshly created folder to recompute into
C18_Witness ==
    /\ w[Writer].pc = "returned"
    /\ ~w[Writer].reused
    /\ Children(fs, w[Writer].folder_path) = {}
    /\ \E F \in DOMAIN made : F # w[Writer].folder_path /\ OneFileAdded(Writer, F)

\* the fields in which two configurations differ
DifferingFields(c1, c2) == { f \in DOMAIN c1 : c1[f] # c2[f] }

\* C19: for the same stage name and the same input fingerprint, two configurations that
\* differ in exactly one field, set in both, give different key hashes, whichever the
\* stage and the field.
C19_EveryFieldInEveryKey ==
    (/\ out.kind = "key"
     /\ args.d1.stage_name = args.d2.stage_name
     /\ out.fp1 = out.fp2
     /\ Cardinality(DifferingFields(args.d1.config, args.d2.config)) = 1
     /\ \A f \in DifferingFields(args.d1.config, args.d2.config) :
           args.d1.config[f] # None /\ args.d2.config[f] # None) => out.key1 # out.key2

\* stage select, whose transform does not read zoom_factor, keyed for two zoom factors
C19_Witness ==
    /\ out.kind = "key"
    /\ args.d1.stage_name = "select"
    /\ args.d2.stage_name = "select"
    /\ out.fp1 = out.fp2
    /\ args.d1.config = DefaultConfig
    /\ DifferingFields(args.d1.config, args.d2.config) = {"zoom_factor"}
    /\ args.d2.config.zoom_factor # None
    /\ out.key1 # out.key2

\* the stages in the order main.py numbers them: Step 1 .. Step 5, Step 1 .. Step 6
StageOrder(variant) ==
    IF variant = "zoom"
    THEN <<"select", "single_face", "zoom", "filter", "resize", "face_crop", "identify">>
    ELSE <<"select", "resize", "face_crop", "single_face", "identify">>

\* the transform of stage n has been called in this run; is running; has returned
Started(n) == \E k \in 1..Len(run.invoked) : run.invoked[k] = n
InProgress(n) == run.pc = "in_stage" /\ Chain(run.variant)[run.stage].stage = n
Finished(n) ==
    \E i \in 1..Len(Chain(run.variant)) :
       Chain(run.variant)[i].stage = n /\ (i < run.stage \/ run.pc = "done")

TransformRaised == run.error \in {"TypeError", "AttributeError"} /\ run.pc \in {"raised", "idle"}

\* C13: once a stage transform has raised, for the rest of that run no transform is
\* called (none later, none again), the exception stays the run's outcome up to the caller,
\* main included, and nothing in the stage folders under the input directory changes.
C13_RaiseEndsTheRun ==
    [][(TransformRaised /\ run'.no = run.no) =>
          /\ run'.invoked = run.invoked
          /\ run'.error = run.error
          /\ run'.pc \in {"raised", "idle"}
          /\ \A q \in DOMAIN fs :
                (\E i \in 1..Len(Chain(run.variant)) :
                    Under(q, WritesDir(run.input_dir, Chain(run.variant)[i])))
                => q \in DOMAIN fs' /\ fs'[q] = fs[q]]_vars

\* a run entered through main has ended with the exception its first transform raised
C13_Witness ==
    /\ run.pc = "idle"
    /\ run.entry = "main"
    /\ run.error = "AttributeError"
    /\ run.invoked = <<"select">>

\* C14 (as claimed): a run on a root directory that does not exist invokes no transform
\* and ends with an error, whichever the entry point.
C14_MissingRootIsError ==
    (run.no >= 1 /\ ~Exists(fs, run.input_dir)) =>
       /\ run.invoked = <<>>
       /\ run.pc = "idle" => run.error # ""

\* C14 (amended): a run on a root directory that does not exist invokes no transform;
\* process_images and process_images_zoom_face end with ValueError, main returns normally.
C14_MissingRootNoTransform ==
    (run.no >= 1 /\ ~Exists(fs, run.input_dir)) =>
       /\ run.invoked = <<>>
       /\ run.pc = "idle" => run.error = (IF run.entry = "main" THEN "" ELSE "ValueError")

\* process_images_zoom_face, called on the missing directory, has ended with ValueError
C14_Witness ==
    /\ run.pc = "idle"
    /\ run.entry = "direct"
    /\ run.variant = "zoom"
    /\ run.input_dir = MissingDir
    /\ run.error = "ValueError"

\* C16 (as claimed): in the chain of the run, the first stage reads the run's input
\* directory and every other stage reads the directory the transform before it writes.
C16_ReadsWhatPredecessorWrote ==
    run.pc = "in_stage" =>
       /\ ReadsDir(run.input_dir, Chain(run.variant)[1]) = run.input_dir
       /\ \A i \in 1..(Len(Chain(run.variant)) - 1) :
             ReadsDir(run.input_dir, Chain(run.variant)[i + 1])
                = WrittenDir(run.input_dir, Chain(run.variant)[i])

C15_WritesOnlyOutputDir ==
    out.kind = "stage" =>
       \A q \in DOMAIN fs \cup DOMAIN out.before :
          \/ Under(q, out.writes)
          \/ q \in DOMAIN fs /\ q \in DOMAIN out.before /\ fs[q] = out.before[q]

\* the hash of a path of the input dict
HashOfPath(p) == args.hashes[CHOOSE k \in 1..Len(args.hashes) : args.hashes[k].path = p].hash

\* C27: the groups find_similar_groups returns are pairwise disjoint sets of input paths
\* of at least two members, each member within the threshold of the path the group was
\* started from; a path with no other path within the threshold is in no group.
C27_GroupsDisjointAroundSeed ==
    out.kind = "groups" =>
       /\ \A i, j \in 1..Len(out.groups) :
             i # j => out.groups[i].members \cap out.groups[j].members = {}
       /\ \A i \in 1..Len(out.groups) :
             /\ Cardinality(out.groups[i].members) >= 2
             /\ out.groups[i].seed \in out.groups[i].members
             /\ out.groups[i].members \subseteq { args.hashes[k].path : k \in 1..Len(args.hashes) }
             /\ \A m \in out.groups[i].members :
                   HashDistance(HashOfPath(out.groups[i].seed), HashOfPath(m)) <= args.threshold
       /\ \A k \in 1..Len(args.hashes) :
             (\A l \in 1..Len(args.hashes) :
                 l # k => HashDistance(args.hashes[k].hash, args.hashes[l].hash) > args.threshold)
             => \A i \in 1..Len(out.groups) : args.hashes[k].path \notin out.groups[i].members

\* three paths: the second is near the first and the third, which are too far from each
\* other, so the third stays alone after the first has taken the second
C27_Witness ==
    /\ out.kind = "groups"
    /\ Len(args.hashes) = 3
    /\ HashDistance(args.hashes[1].hash, args.hashes[2].hash) <= args.threshold
    /\ HashDistance(args.hashes[2].hash, args.hashes[3].hash) <= args.threshold
    /\ HashDistance(args.hashes[1].hash, args.hashes[3].hash) > args.threshold
    /\ Len(out.groups) = 1
    /\ out.groups[1].members = {"f1", "f2"}

\* the positions, in glob order, of the images of the prefix group of image i
GroupOf(i) ==
    { j \in 1..Len(args.images) :
        get_prefix(args.images[j].name, args.separator)
           = get_prefix(args.images[i].name, args.separator) }

IsLarger(i) == args.images[i].width >= args.target /\ args.images[i].height >= args.target

Distance(i) ==
    Abs(args.images[i].width - args.target) + Abs(args.images[i].height - args.target)

\* image i is the one its group should give: among the images of the group that are at
\* least target in both dimensions if there is one, else among all of the group, it has
\* the smallest distance, and it is the first such in glob order
IsBestOfGroup(i) ==
    LET pool == IF \E j \in GroupOf(i) : IsLarger(j)
                THEN { j \in GroupOf(i) : IsLarger(j) }
                ELSE GroupOf(i)
    IN  /\ i \in pool
        /\ \A j \in pool : Distance(i) <= Distance(j)
        /\ \A j \in pool : Distance(j) = Distance(i) => i <= j

\* C25: of every prefix group select_best_images copies exactly one image, the first in
\* glob order of those with the smallest distance among the images at least target in
\* both dimensions, or among all images of the group when none is.
C25_OneBestImagePerGroup ==
    out.kind = "select" =>
       \A i \in 1..Len(args.images) :
          /\ Cardinality({ j \in GroupOf(i) : args.images[j].name \in out.copied }) = 1
          /\ args.images[i].name \in out.copied <=> IsBestOfGroup(i)

\* a group of three: a smaller image that is nearest, and two larger ones at the same
\* distance, of which the first is copied
C25_Witness ==
    /\ out.kind = "select"
    /\ Len(args.images) = 3
    /\ GroupOf(1) = {1, 2, 3}
    /\ ~IsLarger(1) /\ IsLarger(2) /\ IsLarger(3)
    /\ Distance(1) < Distance(2) /\ Distance(2) = Distance(3)
    /\ out.copied = {args.images[2].name}

\* C26 (as claimed): for an image at least target_size wide and high and a center inside
\* it, crop_around_point returns target_size by target_size pixels, from bounds with
\* 0 <= left < right <= width and 0 <= top < bottom <= height.
C26_CropIsTargetSquare ==
    (out.kind = "crop" /\ args.width >= args.target_size /\ args.height >= args.target_size) =>
       /\ out.region.cols = args.target_size
       /\ out.region.rows = args.target_size
       /\ 0 <= out.region.left /\ out.region.left < out.region.right
       /\ out.region.right <= args.width
       /\ 0 <= out.region.top /\ out.region.top < out.region.bottom
       /\ out.region.bottom <= args.height

\* C28: when zoom_and_crop_face detects a face whose box lies inside the W x H image, its
\* crop rectangle satisfies 0 <= left <= right <= W and 0 <= top <= bottom <= H, and the
\* size it returns is (min(new_w, W), min(new_h, H)), new_w = int(w * zoom_factor) and
\* new_h = int(h * zoom_factor).
C28_ZoomCropInsideImage ==
    (out.kind = "zoom" /\ out.crop.success) =>
       /\ 0 <= out.crop.left /\ out.crop.left <= out.crop.right /\ out.crop.right <= args.W
       /\ 0 <= out.crop.top /\ out.crop.top <= out.crop.bottom /\ out.crop.bottom <= args.H
       /\ out.crop.size = << Min2(Zoomed(args.w, args.zoom), args.W),
                             Min2(Zoomed(args.h, args.zoom), args.H) >>

\* C28 witness: a detected face whose zoomed window runs past the right edge of an image
\* it fits into (so the window is moved back), and is higher than the image (so it is cut).
C28_Witness ==
    /\ out.kind = "zoom" /\ out.crop.success
    /\ Zoomed(args.w, args.zoom) <= args.W
    /\ args.x + (args.w \div 2) - (Zoomed(args.w, args.zoom) \div 2)
          + Zoomed(args.w, args.zoom) > args.W
    /\ Zoomed(args.h, args.zoom) > args.H
    /\ C28_ZoomCropInsideImage

\* C29: config.get_hash(stage_name, input_path) is the hash suffix of the name of the
\* directory make_stage_folder returns for the same stage, configuration and input
\* listing: the name is the stage name, "_" and that hash.
C29_GetHashIsFolderSuffix ==
    out.kind = "key" =>
       /\ out.hash1 = out.key1
       /\ BaseName(out.path1) = args.d1.stage_name \o "_" \o out.hash1

\* C29 witness: both derivations made for a configuration with a field set to None,
\* which both leave out of the dict they hash
C29_Witness ==
    /\ out.kind = "key"
    /\ \E f \in DOMAIN args.d1.config : args.d1.config[f] = None
    /\ BaseName(out.path1) = folder_name(args.d1.stage_name, out.hash1)

\* C24: nothing excludes a second caller: while caller q holds a candidate it resolved as
\* recompute and has not yet filled, another caller p deciding on the same, still empty,
\* candidate is told recompute as well, and q's resolution stays as it was, so both run
\* the transform into the same directory.
C24_SecondCallerAlsoRecomputes ==
    [][\A p \in Procs, q \in Procs :
         (/\ p # q
          /\ w[q].pc = "returned" /\ ~w[q].reused
          /\ w[p].pc = "keyed" /\ w'[p].pc = "returned"
          /\ w[p].folder_path = w[q].folder_path
          /\ Children(fs, w[q].folder_path) = {})
         => (~w'[p].reused /\ w'[q] = w[q] /\ IsDir(fs', w[q].folder_path))]_vars

\* C24 witness: both callers hold the same candidate, resolved for the same stage,
\* configuration and input fingerprint, both as recompute, and neither has filled it
C24_Witness ==
    /\ w["p1"].pc = "returned" /\ w["p2"].pc = "returned"
    /\ w["p1"].folder_path = w["p2"].folder_path
    /\ w["p1"].stage_name = w["p2"].stage_name
    /\ w["p1"].config = w["p2"].config
    /\ w["p1"].input_hash = w["p2"].input_hash
    /\ ~w["p1"].reused /\ ~w["p2"].reused
    /\ Children(fs, w["p1"].folder_path) = {}
    /\ IsDir(fs, w["p1"].input_folder)

\* C30 (as claimed): when make_stage_folder takes the recompute branch for a candidate
\* that exists already, the directory it returns holds nothing of earlier runs.
C30_RecomputeHandsEmptyFolder ==
    [][\A p \in Procs :
         (/\ w[p].pc = "keyed" /\ w'[p].pc = "returned"
          /\ ~w'[p].reused
          /\ Exists(fs, w[p].folder_path))
         => Children(fs', w[p].folder_path) = {}]_vars

\* the regular files directly in directory p, each with its node
DirectFiles(f, p) == { <<BaseName(q), f[q]>> : q \in { c \in Children(f, p) : f[c].kind = "file" } }

\* C21: the fingerprint of a directory depends only on the regular files directly in it:
\* a step that creates, removes or changes a subdirectory, or a file inside one, and
\* leaves the direct regular files as they are, leaves the fingerprint as it is.
C21_SubdirectoriesDoNotCount ==
    [][(/\ IsDir(fs, InputDir) /\ IsDir(fs', InputDir)
        /\ DirectFiles(fs', InputDir) = DirectFiles(fs, InputDir))
       => Fingerprint(fs', InputDir) = Fingerprint(fs, InputDir)]_vars

\* C21 witness: the caller fingerprinted the input directory while it held a subdirectory
\* with a file in it, and got the fingerprint of the directory without the subdirectory
C21_Witness ==
    /\ w[Writer].pc = "keyed"
    /\ w[Writer].input_folder = InputDir
    /\ Exists(fs, SubFile)
    /\ DirectFiles(fs, InputDir) = DirectFiles(FsInit, InputDir)
    /\ w[Writer].input_hash = Fingerprint(FsInit, InputDir)

\* what a step of make_stage_folder created
NewPaths == DOMAIN fs' \ DOMAIN fs

\* a step of make_stage_folder keeps every file and directory as it is, and creates
\* nothing but processed/ and the candidate
ResolveCreatesOnly ==
    /\ \A q \in DOMAIN fs : q \in DOMAIN fs' /\ fs'[q] = fs[q]
    /\ NewPaths \subseteq {Parent(w'[Writer].folder_path), w'[Writer].folder_path}
    /\ \A q \in NewPaths : fs'[q] = DirNode

C23_HitNeedsOutputFile ==
    [][(w[Writer].pc = "keyed" /\ w'[Writer].pc = "returned" /\ w'[Writer].reused)
       => \E q \in Children(fs, w[Writer].folder_path) : fs[q].kind = "file"]_vars

====
